---------------------------- MODULE Spec2Model ----------------------------
(***************************************************************************)
(* Model of the financial projection engine of playground-backend          *)
(* (src/model/calculation_engine.py, CalculationEngine) together with the  *)
(* records it reads and writes (src/model/models.py).                      *)
(*                                                                         *)
(* Numbers.  The engine computes with decimal.Decimal.  A Decimal amount v *)
(* is carried here as the integer v * Unit (thousandths of a currency      *)
(* unit); a value quantized to Decimal('0.01') is a multiple of Cent.      *)
(* Percentages are whole percents.  Products are exact; a Decimal division *)
(* is rounded half-even (the default rounding of the decimal context) at   *)
(* the precision Unit, and a quotient that is quantized at once is rounded *)
(* a single time, from the exact rational.  The running balance of the     *)
(* debt schedule, which the engine never quantizes, is carried in Fine     *)
(* parts of that precision.  A period label str(year) is carried as the    *)
(* year.                                                                   *)
(***************************************************************************)
EXTENDS Integers, Sequences, FiniteSets, TLC

VARIABLES
    scenario,   \* the Scenario and its assumption records (read-only during a run)
    pc,         \* position of calculate_scenario
    calc,       \* the engine's fields and the locals of calculate_scenario
    logs,       \* CalculationLog rows of the scenario, oldest first: their status
    stored,     \* CalculatedStatement rows of the scenario
    outcome,    \* what the caller of each finished run got, oldest first
    budget,     \* how many more times the caller will invoke calculate_scenario
    loan,       \* a loan repaid with the payment of _calculate_pmt
    audit,      \* the lines of logger.error and the other fields of each CalculationLog
    views,      \* the requests to the calculate endpoints and the in-progress flag
    pool        \* the leaf schedulers run as tasks: their results and returns

vars == <<scenario, pc, calc, logs, stored, outcome, budget, loan, audit, views, pool>>

---------------------------------------------------------------------------
\* Bounds of the model.

MaxRuns == 2        \* calls of calculate_scenario in one behaviour
MaxYears == 6       \* largest number_of_years
MaxTenor == 5       \* largest loan_tenor_years

\* Decimal amounts per currency unit, and per cent.
Unit == 1000
Cent == Unit \div 100

\* The running balance of the debt schedule is never quantized: it is kept
\* in Fine parts of an amount.
Fine == 100

\* The fallback window of _generate_periods.
FallbackBaseYear == 2025
FallbackYears == 10

\* the base_year of the scenarios of the model
BaseYear == FallbackBaseYear

---------------------------------------------------------------------------
\* Arithmetic.

Abs(a) == IF a < 0 THEN -a ELSE a

Max(a, b) == IF a >= b THEN a ELSE b

Min(a, b) == IF a <= b THEN a ELSE b

RECURSIVE GCD(_, _)
GCD(a, b) == IF b = 0 THEN a ELSE GCD(b, a % b)

RECURSIVE Pow(_, _)
Pow(b, e) == IF e = 0 THEN 1 ELSE b * Pow(b, e - 1)

\* <<q, r>> with a * b = q * c + r and 0 <= r < c, for a, b >= 0 and c > 0,
\* computed without forming a * b.
RECURSIVE MulDivQR(_, _, _)
MulDivQR(a, b, c) ==
    IF b = 0 THEN <<0, 0>>
    ELSE LET h == MulDivQR(a, b \div 2, c)
             d == <<2 * h[1] + ((2 * h[2]) \div c), (2 * h[2]) % c>>
             s == d[2] + (a % c)
         IN  IF b % 2 = 0 THEN d
             ELSE <<d[1] + (a \div c) + (s \div c), s % c>>

\* a * b / c rounded half-even to an integer (b >= 0, c > 0).
MulDivRound(a, b, c) ==
    LET qr == MulDivQR(Abs(a), b, c)
        m  == IF 2 * qr[2] > c \/ (2 * qr[2] = c /\ qr[1] % 2 = 1)
              THEN qr[1] + 1 ELSE qr[1]
    IN  IF a < 0 THEN -m ELSE m

\* (a * b / c).quantize(Decimal('0.01')), from the exact rational.
QuantizeRatio(a, b, c) == MulDivRound(a, b, c * Cent) * Cent

\* x.quantize(Decimal('0.01'))
quantize(x) == QuantizeRatio(x, 1, 1)

\* x.quantize(Decimal('0.01')) of an unquantized x held in Fine parts
quantize_fine(x) == QuantizeRatio(x, 1, Fine)

\* 1 + rate/100 as the reduced fraction Num/Den.
RateNum(rate) == (100 + rate) \div GCD(100 + rate, 100)
RateDen(rate) == 100 \div GCD(100 + rate, 100)

\* (base * up/down * (1 + rate/100) ** i).quantize(Decimal('0.01'))
Compound(base, up, down, rate, i) ==
    QuantizeRatio(base, up * Pow(RateNum(rate), i), down * Pow(RateDen(rate), i))

---------------------------------------------------------------------------
\* Periods and series.

PeriodSet(periods) == {periods[i] : i \in DOMAIN periods}

\* {p: Decimal('0') for p in self.periods}
Zeros(periods) == [p \in PeriodSet(periods) |-> 0]

\* enumerate(self.periods): the index of a period
Index(periods, p) == CHOOSE i \in DOMAIN periods : periods[i] = p

\* d.get(period, Decimal('0'))
Get(series, p) == IF p \in DOMAIN series THEN series[p] ELSE 0

RECURSIVE SumOver(_, _)
SumOver(f, S) ==
    IF S = {} THEN 0
    ELSE LET x == CHOOSE y \in S : TRUE IN f[x] + SumOver(f, S \ {x})

\* sum(item.get(period, Decimal('0')) for item in schedule.values())
SumItems(schedule, p) ==
    SumOver([k \in DOMAIN schedule |-> Get(schedule[k], p)], DOMAIN schedule)

\* the running sum of a series over the periods up to the i-th
RECURSIVE RunningSum(_, _, _)
RunningSum(series, periods, i) ==
    IF i = 0 THEN 0 ELSE RunningSum(series, periods, i - 1) + series[periods[i]]

\* a series that does not accumulate: each period holds its own flow
PeriodFlow(series, periods) == [p \in PeriodSet(periods) |-> series[p]]

\* the balance of a series accumulated from the first period
Cumulative(series, periods) ==
    [p \in PeriodSet(periods) |-> RunningSum(series, periods, Index(periods, p))]

EmptyDict == <<>>

\* the line an except branch writes with logger.error, if it is entered
Logged(failed, line) == IF failed THEN <<line>> ELSE <<>>

\* (1 + rate/100) ** i raises InvalidOperation for 0 ** 0: a rate of -100%
\* fails in the first period
PowerRaises(rate, periods) == rate = -100 /\ periods # <<>>

---------------------------------------------------------------------------
\* Step 1: _generate_periods.  Reading macro_assumptions or project_info of a
\* scenario that has none raises, and the except branch returns the fallback.

generate_periods_failed(s) == ~(s.macro.present /\ s.project.present)

generate_periods(s) ==
    IF ~generate_periods_failed(s)
    THEN [i \in 1..s.macro.number_of_years |-> s.macro.base_year + (i - 1)]
    ELSE [i \in 1..FallbackYears |-> FallbackBaseYear + (i - 1)]

---------------------------------------------------------------------------
\* Step 2: _calculate_revenue.

\* min(Decimal('1.0'), months / Decimal('12')) as twelfths
rampup_factor(months) == Min(12, months)

\* the revenue of one product in the period of index i (0-based)
product_revenue(product, i) ==
    LET ramp   == product.revenue_rampup_months # 0 /\ i = 0
        season == product.seasonal_adjustment_factor # 0
        up     == Pow(RateNum(product.volume_growth_rate), i)
                  * Pow(RateNum(product.price_escalation_rate), i)
                  * (IF ramp THEN rampup_factor(product.revenue_rampup_months) ELSE 1)
                  * (IF season THEN product.seasonal_adjustment_factor ELSE 1)
        down   == Pow(RateDen(product.volume_growth_rate), i)
                  * Pow(RateDen(product.price_escalation_rate), i)
                  * (IF ramp THEN 12 ELSE 1)
                  * (IF season THEN 100 ELSE 1)
    IN  QuantizeRatio(product.year_1_sales_volume * product.unit_price_year_1, up, down)

\* a product whose growth or escalation raises; the except branch replaces
\* the whole schedule by one zero series named 'Total Revenue'
calculate_revenue_failed(s, periods) ==
    \E k \in DOMAIN s.products :
        \/ PowerRaises(s.products[k].volume_growth_rate, periods)
        \/ PowerRaises(s.products[k].price_escalation_rate, periods)

calculate_revenue(s, periods) ==
    IF calculate_revenue_failed(s, periods)
    THEN [name \in {"Total Revenue"} |-> Zeros(periods)]
    ELSE
    [name \in {s.products[k].product_name : k \in DOMAIN s.products} |->
        LET product == s.products[CHOOSE k \in DOMAIN s.products :
                                      s.products[k].product_name = name]
        IN  [p \in PeriodSet(periods) |-> product_revenue(product, Index(periods, p) - 1)]]

---------------------------------------------------------------------------
\* Step 3: _calculate_opex.  Without operating_expenses or macro_assumptions
\* the first statements of the try block raise and the schedule stays empty.

OpexItems == <<"Staff Costs", "Utilities", "Other Operating Expenses", "Insurance">>

\* the rate each opex item escalates with
opex_rate(s, item) ==
    CASE item = "Staff Costs" -> s.opex.salary_escalation_rate
      [] item = "Utilities" -> s.opex.utilities_escalation_rate
      [] OTHER -> s.macro.local_inflation_rate

\* the items computed before the except branch is entered: all of them, or
\* those before the first whose escalation raises
opex_items_done(s, periods) ==
    {OpexItems[k] : k \in {j \in DOMAIN OpexItems :
        \A i \in 1..j : ~PowerRaises(opex_rate(s, OpexItems[i]), periods)}}

calculate_opex_failed(s, periods) ==
    \/ ~(s.opex.present /\ s.macro.present)
    \/ \E k \in DOMAIN OpexItems : PowerRaises(opex_rate(s, OpexItems[k]), periods)

calculate_opex(s, periods) ==
    IF ~(s.opex.present /\ s.macro.present) THEN EmptyDict
    ELSE LET opex == s.opex
             base_staff_cost == opex.total_headcount * opex.average_annual_salary
             base_utilities == opex.power_electricity_cost_annual
                               + opex.water_gas_utilities_annual
             base_other == opex.administrative_expenses_annual
                           + opex.rent_facilities_annual
                           + opex.technology_software_annual
                           + opex.professional_fees_annual
             i(p) == Index(periods, p) - 1
         IN  [item \in opex_items_done(s, periods) |->
                [p \in PeriodSet(periods) |->
                    CASE item = "Staff Costs" ->
                           Compound(base_staff_cost, 100 + opex.benefits_payroll_tax_pct, 100,
                                    opex.salary_escalation_rate, i(p))
                      [] item = "Utilities" ->
                           Compound(base_utilities, 1, 1, opex.utilities_escalation_rate, i(p))
                      [] item = "Other Operating Expenses" ->
                           Compound(base_other, 1, 1, s.macro.local_inflation_rate, i(p))
                      [] OTHER ->
                           Compound(opex.insurance_annual, 1, 1,
                                    s.macro.local_inflation_rate, i(p))]]

---------------------------------------------------------------------------
\* Step 4: _calculate_depreciation.  Without project_info the schedule stays
\* empty.

\* annual_depreciation.quantize(Decimal('0.01'))
annual_depreciation(schedule) ==
    QuantizeRatio(schedule.asset_value, 100 - schedule.residual_value_pct,
                  100 * schedule.useful_life_years)

\* depreciation that does not stop at the end of the useful life
category_dep_unbounded(schedule, ops_start_year, year) ==
    IF schedule.useful_life_years = 0 THEN 0
    ELSE IF year >= ops_start_year THEN annual_depreciation(schedule) ELSE 0

\* lines 295-308: the depreciation of a category in a year
category_dep(schedule, ops_start_year, year) ==
    IF schedule.useful_life_years = 0 THEN 0
    ELSE IF year >= ops_start_year
              /\ year - ops_start_year < schedule.useful_life_years
         THEN annual_depreciation(schedule)
         ELSE 0

calculate_depreciation_failed(s) == ~s.project.present

calculate_depreciation(s, periods) ==
    IF calculate_depreciation_failed(s) THEN EmptyDict
    ELSE [cat \in {s.depreciation[k].asset_category : k \in DOMAIN s.depreciation} |->
            LET schedule == s.depreciation[CHOOSE k \in DOMAIN s.depreciation :
                                               s.depreciation[k].asset_category = cat]
            IN  [p \in PeriodSet(periods) |->
                    category_dep(schedule, s.project.operations_start_year, p)]]

---------------------------------------------------------------------------
\* Step 5: _calculate_capex.  Without capital_expenditure or project_info
\* the except branch returns zeros.

capex_hard_costs(capex) ==
    capex.land_cost + capex.construction_building_cost
    + capex.equipment_machinery_cost + capex.ffe_cost
    + capex.carpark_cost + capex.amenities_cost

soft_cost_pct(capex) ==
    capex.contingency_pct + capex.professional_fees_pct
    + capex.permits_approvals_pct + capex.vat_on_construction_pct

\* the drawdown percentage of the year, by years from construction start
drawdown_pct(capex, years_from_construction) ==
    CASE years_from_construction = 0 -> capex.year_1_drawdown_pct
      [] years_from_construction = 1 -> capex.year_2_drawdown_pct
      [] years_from_construction = 2 -> capex.year_3_drawdown_pct
      [] OTHER -> 0

calculate_capex_failed(s) == ~(s.capex.present /\ s.project.present)

calculate_capex(s, periods) ==
    IF calculate_capex_failed(s) THEN Zeros(periods)
    ELSE [p \in PeriodSet(periods) |->
            QuantizeRatio(capex_hard_costs(s.capex),
                          (100 + soft_cost_pct(s.capex))
                          * drawdown_pct(s.capex, p - s.project.construction_start_year),
                          100 * 100)]

---------------------------------------------------------------------------
\* Step 6: _calculate_debt.

\* a level payment of straight-line principal plus simple interest
simple_interest_pmt(pv, rate, nper) == MulDivRound(pv, 100 + rate * nper, 100 * nper)

\* _calculate_pmt(pv, rate, nper); rate is the all-in rate in percent
calculate_pmt(pv, rate, nper) ==
    IF rate = 0 THEN MulDivRound(pv, 1, nper)
    ELSE LET one_plus == RateNum(rate)      \* 1 + rate = one_plus / den
             den      == RateDen(rate)
             factor   == Pow(one_plus, nper)    \* (1 + rate) ** nper, over den ** nper
         IN  MulDivRound(pv, (one_plus - den) * factor,
                         den * (factor - Pow(den, nper)))

\* a drawdown read from the CAPEX schedule of the engine, in Fine parts
drawdown_of_capex_schedule(s, year) ==
    MulDivRound(Get(calc.capex_schedule, year) * Fine, s.debt.debt_percentage, 100)

\* total_debt * year_k_drawdown_pct / 100 of the debt schedule, in Fine parts
debt_drawdown(s, year) ==
    LET capex == s.capex
        total_hard_costs == capex.land_cost + capex.construction_building_cost
                            + capex.equipment_machinery_cost + capex.ffe_cost
    IN  MulDivRound(total_hard_costs * Fine,
                    (100 + soft_cost_pct(capex)) * s.debt.debt_percentage
                    * drawdown_pct(capex, year - s.project.construction_start_year),
                    100 * 100 * 100)

all_in_rate(debt) == debt.base_rate_value + debt.interest_margin_spread

\* ops_start_year + int(grace_period_months / 12)
repayment_start_year(s) ==
    s.project.operations_start_year + (s.debt.grace_period_months \div 12)

\* avg_balance * all_in_rate, before it is quantized
debt_interest(s, closing_balance, drawdown) ==
    MulDivRound(2 * closing_balance + drawdown, all_in_rate(s.debt), 2 * 100)

principal_payment(s, year, closing_balance, drawdown, interest) ==
    IF year >= repayment_start_year(s) /\ s.debt.repayment_type = "Amortizing"
    THEN LET periods_remaining ==
                 s.debt.loan_tenor_years - (year - repayment_start_year(s))
         IN  IF periods_remaining > 0
             THEN Max(0, calculate_pmt(closing_balance + drawdown,
                                       all_in_rate(s.debt), periods_remaining)
                         - interest)
             ELSE closing_balance + drawdown
    ELSE 0

\* one pass of the loop body: the unquantized values of the i-th period, in
\* Fine parts
RECURSIVE debt_row(_, _, _)
debt_row(s, periods, i) ==
    LET year     == periods[i]
        opening  == IF i = 1 THEN 0 ELSE debt_row(s, periods, i - 1).closing
        drawdown == debt_drawdown(s, year)
        interest == debt_interest(s, opening, drawdown)
        payment  == principal_payment(s, year, opening, drawdown, interest)
    IN  [opening |-> opening, drawdown |-> drawdown, interest |-> interest,
         principal |-> payment, closing |-> opening + drawdown - payment]

DebtItems ==
    <<"Opening Balance", "Drawdowns", "Principal Repayment", "Interest Expense",
      "Closing Balance">>

\* Opening Balance and Drawdowns are stored as computed, without quantize;
\* the statement holds them to the last digit of Unit
calculate_debt_failed(s) == ~(s.debt.present /\ s.capex.present /\ s.project.present)

calculate_debt(s, periods) ==
    IF calculate_debt_failed(s)
    THEN [item \in {DebtItems[k] : k \in DOMAIN DebtItems} |-> Zeros(periods)]
    ELSE LET rows == [i \in DOMAIN periods |-> debt_row(s, periods, i)]
             row(p) == rows[Index(periods, p)]
         IN  [item \in {DebtItems[k] : k \in DOMAIN DebtItems} |->
                [p \in PeriodSet(periods) |->
                    CASE item = "Opening Balance" -> MulDivRound(row(p).opening, 1, Fine)
                      [] item = "Drawdowns" -> MulDivRound(row(p).drawdown, 1, Fine)
                      [] item = "Principal Repayment" -> quantize_fine(row(p).principal)
                      [] item = "Interest Expense" -> quantize_fine(row(p).interest)
                      [] OTHER -> quantize_fine(row(p).closing)]]

---------------------------------------------------------------------------
\* Step 7: _build_income_statement.  Without tax_assumptions the first
\* statement of the try block raises and the statement stays empty.

IncomeItems ==
    <<"Total Revenue", "Total Operating Expenses", "EBITDA", "Depreciation", "EBIT",
      "Interest Expense", "EBT", "Tax Expense", "Net Income">>

\* tax in proportion to EBT, losses included
tax_on_ebt(ebt, rate) == QuantizeRatio(ebt, rate, 100)

\* lines 553-561: tax on a positive EBT only
tax_expense(ebt, rate) == IF ebt > 0 THEN QuantizeRatio(ebt, rate, 100) ELSE 0

\* earnings before tax with the interest left out
earnings_before_interest(ebit, interest) == ebit

\* lines 547-549: EBT is EBIT less the interest expense of the period
earnings_before_tax(ebit, interest) == ebit - interest

build_income_statement(s, periods, revenue_schedule, opex_schedule, depreciation_schedule, debt_schedule) ==
    IF ~s.tax.present THEN EmptyDict
    ELSE LET P == PeriodSet(periods)
             total_revenue == [p \in P |-> SumItems(revenue_schedule, p)]
             total_opex == [p \in P |-> SumItems(opex_schedule, p)]
             ebitda == [p \in P |-> total_revenue[p] - total_opex[p]]
             total_depreciation == [p \in P |-> SumItems(depreciation_schedule, p)]
             ebit == [p \in P |-> ebitda[p] - total_depreciation[p]]
             ebt == [p \in P |-> earnings_before_tax(ebit[p],
                                     Get(debt_schedule["Interest Expense"], p))]
             tax == [p \in P |-> tax_expense(ebt[p], s.tax.corporate_income_tax_rate)]
         IN  [item \in {IncomeItems[k] : k \in DOMAIN IncomeItems} |->
                CASE item = "Total Revenue" -> total_revenue
                  [] item = "Total Operating Expenses" -> total_opex
                  [] item = "EBITDA" -> ebitda
                  [] item = "Depreciation" -> total_depreciation
                  [] item = "EBIT" -> ebit
                  [] item = "Interest Expense" -> debt_schedule["Interest Expense"]
                  [] item = "EBT" -> ebt
                  [] item = "Tax Expense" -> tax
                  [] OTHER -> [p \in P |-> ebt[p] - tax[p]]]

---------------------------------------------------------------------------
\* Step 8: _build_cash_flow_statement.  With an empty income statement the
\* first statement of the try block raises KeyError and the statement stays
\* empty.

CashFlowItems ==
    <<"Net Income", "Depreciation", "Changes in Working Capital",
      "Cash Flow from Operations", "Capital Expenditure", "Cash Flow from Investing",
      "Debt Drawdowns", "Debt Repayment", "Interest Paid", "Cash Flow from Financing",
      "Net Cash Flow", "Cash Balance (End)">>

build_cash_flow_statement(periods, income_statement, capex_schedule, debt_schedule) ==
    IF "Net Income" \notin DOMAIN income_statement THEN EmptyDict
    ELSE LET P == PeriodSet(periods)
             changes_in_wc == Zeros(periods)
             cfo == [p \in P |-> income_statement["Net Income"][p]
                                 + income_statement["Depreciation"][p]
                                 - changes_in_wc[p]]
             capex_cf == [p \in P |-> -Get(capex_schedule, p)]
             debt_repayment == [p \in P |-> -debt_schedule["Principal Repayment"][p]]
             interest_cf == [p \in P |-> -debt_schedule["Interest Expense"][p]]
             cff == [p \in P |-> debt_schedule["Drawdowns"][p] + debt_repayment[p]
                                 + interest_cf[p]]
             net_cf == [p \in P |-> cfo[p] + capex_cf[p] + cff[p]]
         IN  [item \in {CashFlowItems[k] : k \in DOMAIN CashFlowItems} |->
                CASE item = "Net Income" -> income_statement["Net Income"]
                  [] item = "Depreciation" -> income_statement["Depreciation"]
                  [] item = "Changes in Working Capital" -> changes_in_wc
                  [] item = "Cash Flow from Operations" -> cfo
                  [] item = "Capital Expenditure" -> capex_cf
                  [] item = "Cash Flow from Investing" -> capex_cf
                  [] item = "Debt Drawdowns" -> debt_schedule["Drawdowns"]
                  [] item = "Debt Repayment" -> debt_repayment
                  [] item = "Interest Paid" -> interest_cf
                  [] item = "Cash Flow from Financing" -> cff
                  [] item = "Net Cash Flow" -> net_cf
                  [] OTHER -> Cumulative(net_cf, periods)]

---------------------------------------------------------------------------
\* Step 9: _build_balance_sheet.  With an empty cash flow statement the first
\* statement of the try block raises KeyError and the sheet stays empty.

BalanceItems ==
    <<"Cash", "Net Fixed Assets", "Total Assets", "Debt", "Total Liabilities",
      "Retained Earnings", "Total Equity", "Balance Check (should be 0)">>

build_balance_sheet(periods, income_statement, cash_flow_statement, capex_schedule, debt_schedule) ==
    IF "Cash Balance (End)" \notin DOMAIN cash_flow_statement THEN EmptyDict
    ELSE LET P == PeriodSet(periods)
             cash == cash_flow_statement["Cash Balance (End)"]
             accumulated_capex ==
                 Cumulative([p \in P |-> Get(capex_schedule, p)], periods)
             accumulated_depreciation ==
                 Cumulative(income_statement["Depreciation"], periods)
             net_fixed_assets ==
                 [p \in P |-> accumulated_capex[p] - accumulated_depreciation[p]]
             total_assets == [p \in P |-> cash[p] + net_fixed_assets[p]]
             retained_earnings == Cumulative(income_statement["Net Income"], periods)
         IN  [item \in {BalanceItems[k] : k \in DOMAIN BalanceItems} |->
                CASE item = "Cash" -> cash
                  [] item = "Net Fixed Assets" -> net_fixed_assets
                  [] item = "Total Assets" -> total_assets
                  [] item = "Debt" -> debt_schedule["Closing Balance"]
                  [] item = "Total Liabilities" -> debt_schedule["Closing Balance"]
                  [] item = "Retained Earnings" -> retained_earnings
                  [] item = "Total Equity" -> retained_earnings
                  [] OTHER ->
                       [p \in P |-> total_assets[p]
                                    - (debt_schedule["Closing Balance"][p]
                                       + retained_earnings[p])]]

---------------------------------------------------------------------------
\* Step 10: _calculate_ratios.  With an empty income statement the first
\* pass of the first loop raises KeyError and the ratios stay empty; with no
\* periods no loop body runs.

RatioItems ==
    <<"EBITDA Margin (%)", "Net Margin (%)", "ROE (%)", "ROA (%)", "DSCR",
      "Debt-to-Equity">>

\* (numerator / denominator * scale).quantize(Decimal('0.01')), 0 unless
\* the denominator is positive
guarded_ratio(numerator, denominator, scale) ==
    IF denominator > 0
    THEN MulDivRound(numerator, scale * (Unit \div Cent), denominator) * Cent
    ELSE 0

calculate_ratios(periods, income_statement, balance_sheet, debt_schedule) ==
    IF periods # <<>> /\ "Total Revenue" \notin DOMAIN income_statement THEN EmptyDict
    ELSE LET P == PeriodSet(periods)
             debt_service == [p \in P |-> debt_schedule["Principal Repayment"][p]
                                          + debt_schedule["Interest Expense"][p]]
         IN  [item \in {RatioItems[k] : k \in DOMAIN RatioItems} |->
                [p \in P |->
                    CASE item = "EBITDA Margin (%)" ->
                           guarded_ratio(income_statement["EBITDA"][p],
                                         income_statement["Total Revenue"][p], 100)
                      [] item = "Net Margin (%)" ->
                           guarded_ratio(income_statement["Net Income"][p],
                                         income_statement["Total Revenue"][p], 100)
                      [] item = "ROE (%)" ->
                           guarded_ratio(income_statement["Net Income"][p],
                                         balance_sheet["Total Equity"][p], 100)
                      [] item = "ROA (%)" ->
                           guarded_ratio(income_statement["Net Income"][p],
                                         balance_sheet["Total Assets"][p], 100)
                      [] item = "DSCR" ->
                           guarded_ratio(income_statement["EBITDA"][p], debt_service[p], 1)
                      [] OTHER ->
                           guarded_ratio(debt_schedule["Closing Balance"][p],
                                         balance_sheet["Total Equity"][p], 1)]]

---------------------------------------------------------------------------
\* Step 11: _calculate_valuation.  The dictionary is filled key by key and an
\* exception leaves what was filled before it.

\* what np.irr does with the cash flows: it raises (the bare except of
\* _calculate_irr returns 0.0), it returns nan, or it returns a root
IrrOutcomes == {"raises", "nan", "root"}

\* line 848 of _calculate_valuation is reached: the records exist and the
\* cash flow statement has the operating cash flow of every period
irr_reached(s, periods, cash_flow_statement) ==
    /\ s.exit_valuation.present /\ s.macro.present
    /\ periods = <<>> \/ "Cash Flow from Operations" \in DOMAIN cash_flow_statement

\* the except branch of _calculate_valuation is entered: a record is missing,
\* the cash flow statement is empty, or there is no last period for the
\* terminal value
calculate_valuation_failed(s, periods, cash_flow_statement, irr) ==
    \/ ~(s.exit_valuation.present /\ s.macro.present)
    \/ periods # <<>> /\ "Cash Flow from Operations" \notin DOMAIN cash_flow_statement
    \/ periods = <<>>

\* Decimal(str(irr * 100)).quantize(Decimal('0.01')) of a nan: nan is truthy,
\* and quantize of a quiet NaN returns NaN without raising; the value is
\* no amount
NaN == 0 - 1000000 * Unit

\* Decimal(str(irr * 100)).quantize(Decimal('0.01')) of a root
irr_root == 10 * Unit

\* _calculate_npv, quantized
calculate_npv(periods, cfo, discount_rate) ==
    LET term == [i \in DOMAIN periods |->
                    MulDivRound(cfo[periods[i]], Pow(RateDen(discount_rate), i - 1),
                                Pow(RateNum(discount_rate), i - 1))]
    IN  quantize(SumOver(term, DOMAIN periods))

calculate_valuation(s, periods, income_statement, cash_flow_statement, irr) ==
    IF ~(s.exit_valuation.present /\ s.macro.present) THEN EmptyDict
    ELSE IF periods # <<>> /\ "Cash Flow from Operations" \notin DOMAIN cash_flow_statement
    THEN EmptyDict
    ELSE LET npv == IF periods = <<>> THEN 0
                    ELSE calculate_npv(periods,
                                       cash_flow_statement["Cash Flow from Operations"],
                                       s.exit_valuation.discount_rate_npv_pct)
             irr_pct == CASE irr = "root" -> irr_root
                          [] irr = "nan" -> NaN
                          [] OTHER -> 0
             terminal_value ==
                 QuantizeRatio(income_statement["EBITDA"][periods[Len(periods)]],
                               s.exit_valuation.exit_multiple_ev_ebitda, 1)
         IN  IF periods = <<>>
             THEN [k \in {"NPV", "IRR (%)"} |-> IF k = "NPV" THEN npv ELSE irr_pct]
             ELSE [k \in {"NPV", "IRR (%)", "Terminal Value"} |->
                     CASE k = "NPV" -> npv
                       [] k = "IRR (%)" -> irr_pct
                       [] OTHER -> terminal_value]

---------------------------------------------------------------------------
\* Step 12: _save_results.  Every create is a statement of its own in the
\* database (the engine opens no transaction), so a create that raises
\* leaves the rows created before it.

\* the line items of a statement, in the insertion order of its dictionary
ItemsOf(order, statement) ==
    SelectSeq(order, LAMBDA item : item \in DOMAIN statement)

\* CalculatedStatement.objects.create(...) for the first k line items
Rows(statement_type, order, statement, k, run) ==
    {[statement_type |-> statement_type,
      line_item |-> ItemsOf(order, statement)[j],
      values_by_period |-> statement[ItemsOf(order, statement)[j]],
      run |-> run] : j \in 1..k}

\* the exception of a create that raises, and no exception
CreateError(statement_type, line_item) == <<"create", statement_type, line_item>>

NoException == <<>>

\* the loop over one statement: every create succeeds, or the create after
\* the first k raises and control passes to the except branch of
\* calculate_scenario with the exception
SaveStatement(at, statement_type, order, statement, next) ==
    /\ pc = at
    /\ \/ /\ stored' = stored \cup Rows(statement_type, order, statement,
                                        Len(ItemsOf(order, statement)), Len(logs))
          /\ pc' = next
          /\ calc' = calc
       \/ \E k \in 0..(Len(ItemsOf(order, statement)) - 1) :
             /\ stored' = stored \cup Rows(statement_type, order, statement, k, Len(logs))
             /\ pc' = "except"
             /\ calc' = [calc EXCEPT !.exception =
                            CreateError(statement_type, ItemsOf(order, statement)[k + 1])]
    /\ UNCHANGED <<scenario, logs, outcome, budget, loan, audit, views, pool>>

\* _save_results without the delete: the new rows are added to the old ones
SaveWithoutDelete ==
    /\ pc = "save"
    /\ stored' = stored
    /\ pc' = "save_is"
    /\ UNCHANGED <<scenario, calc, logs, outcome, budget, loan, audit, views, pool>>

\* CalculatedStatement.objects.filter(scenario=self.scenario).delete()
SaveDelete ==
    /\ pc = "save"
    /\ stored' = {}
    /\ pc' = "save_is"
    /\ UNCHANGED <<scenario, calc, logs, outcome, budget, loan, audit, views, pool>>

SaveIncomeStatement ==
    SaveStatement("save_is", "is", IncomeItems, calc.income_statement, "save_bs")

SaveBalanceSheet ==
    SaveStatement("save_bs", "bs", BalanceItems, calc.balance_sheet, "save_cfs")

SaveCashFlowStatement ==
    SaveStatement("save_cfs", "cfs", CashFlowItems, calc.cash_flow_statement, "save_ratio")

SaveRatios ==
    SaveStatement("save_ratio", "ratio", RatioItems, calc.ratios, "save_valuation")

\* one row holds the whole valuation dictionary
SaveValuation ==
    SaveStatement("save_valuation", "valuation", <<"Valuation Metrics">>,
                  [item \in {"Valuation Metrics"} |-> calc.valuation], "save_debt")

SaveDebtSchedule ==
    SaveStatement("save_debt", "debt", DebtItems, calc.debt_schedule, "success")

---------------------------------------------------------------------------
\* calculate_scenario.

\* _calculate_irr has not been called
NoIrr == "not called"

\* CalculationEngine.__init__ and the locals not yet assigned
NewEngine ==
    [periods |-> <<>>, revenue_schedule |-> EmptyDict, opex_schedule |-> EmptyDict,
     depreciation_schedule |-> EmptyDict, capex_schedule |-> EmptyDict,
     debt_schedule |-> EmptyDict, income_statement |-> EmptyDict,
     cash_flow_statement |-> EmptyDict, balance_sheet |-> EmptyDict,
     ratios |-> EmptyDict, valuation |-> EmptyDict, irr |-> NoIrr,
     exception |-> NoException]

\* the fields of a new CalculationLog besides its status: completed_at and
\* duration_seconds are null, error_message and error_traceback are null;
\* raised is what calculate_scenario raised to its caller
NewLogDetails ==
    [completed_at |-> FALSE, duration_seconds |-> FALSE,
     error_message |-> NoException, error_traceback |-> NoException,
     raised |-> NoException]

\* the default of CalculationLog.status, which the engine never uses
DefaultLogStatus == "pending"

\* CalculationLog.objects.create(scenario=scenario, triggered_by=user, status='running')
NewLogStatus == "running"

\* the caller invokes calculate_scenario on a new engine; the log is created
StartRun ==
    /\ pc = "idle"
    /\ budget > 0
    /\ budget' = budget - 1
    /\ logs' = Append(logs, NewLogStatus)
    /\ audit' = [audit EXCEPT !.details = Append(@, NewLogDetails)]
    /\ calc' = NewEngine
    /\ pc' = "periods"
    /\ UNCHANGED <<scenario, stored, outcome, loan, views, pool>>

\* one step of the try block: a local is assigned and control moves on;
\* errors are the lines the except branches of the stage write with
\* logger.error
Step(at, field, value, errors, next) ==
    /\ pc = at
    /\ calc' = [calc EXCEPT ![field] = value]
    /\ audit' = [audit EXCEPT !.logger = @ \o errors]
    /\ pc' = next
    /\ UNCHANGED <<scenario, logs, stored, outcome, budget, loan, views, pool>>

GeneratePeriods ==
    Step("periods", "periods", generate_periods(scenario),
         Logged(generate_periods_failed(scenario), "Error generating periods"), "revenue")

CalculateRevenue ==
    Step("revenue", "revenue_schedule",
         calculate_revenue(scenario, calc.periods),
         Logged(calculate_revenue_failed(scenario, calc.periods), "Error calculating revenue"),
         "opex")

CalculateOpex ==
    Step("opex", "opex_schedule", calculate_opex(scenario, calc.periods),
         Logged(calculate_opex_failed(scenario, calc.periods), "Error calculating opex"),
         "depreciation")

CalculateDepreciation ==
    Step("depreciation", "depreciation_schedule",
         calculate_depreciation(scenario, calc.periods),
         Logged(calculate_depreciation_failed(scenario), "Error calculating depreciation"),
         "capex")

CalculateCapex ==
    Step("capex", "capex_schedule", calculate_capex(scenario, calc.periods),
         Logged(calculate_capex_failed(scenario), "Error calculating capex"), "debt")

CalculateDebt ==
    Step("debt", "debt_schedule", calculate_debt(scenario, calc.periods),
         Logged(calculate_debt_failed(scenario), "Error calculating debt"), "is")

\* an income statement built right after period generation, before any
\* scheduler has run
BuildBeforeSchedulers ==
    Step("revenue", "income_statement",
         build_income_statement(scenario, calc.periods, calc.revenue_schedule,
                                calc.opex_schedule, calc.depreciation_schedule,
                                calc.debt_schedule),
         Logged(~scenario.tax.present, "Error building income statement"), "cfs")

BuildIncomeStatement ==
    Step("is", "income_statement",
         build_income_statement(scenario, calc.periods, calc.revenue_schedule,
                                calc.opex_schedule, calc.depreciation_schedule,
                                calc.debt_schedule),
         Logged(~scenario.tax.present, "Error building income statement"), "cfs")

BuildCashFlowStatement ==
    Step("cfs", "cash_flow_statement",
         build_cash_flow_statement(calc.periods, calc.income_statement,
                                   calc.capex_schedule, calc.debt_schedule),
         Logged("Net Income" \notin DOMAIN calc.income_statement,
                "Error building cash flow statement"), "bs")

BuildBalanceSheet ==
    Step("bs", "balance_sheet",
         build_balance_sheet(calc.periods, calc.income_statement,
                             calc.cash_flow_statement, calc.capex_schedule,
                             calc.debt_schedule),
         Logged("Cash Balance (End)" \notin DOMAIN calc.cash_flow_statement,
                "Error building balance sheet"), "ratios")

CalculateRatios ==
    Step("ratios", "ratios",
         calculate_ratios(calc.periods, calc.income_statement, calc.balance_sheet,
                          calc.debt_schedule),
         Logged(calc.periods # <<>> /\ "Total Revenue" \notin DOMAIN calc.income_statement,
                "Error calculating ratios"), "valuation")

CalculateValuation ==
    \E irr \in IF irr_reached(scenario, calc.periods, calc.cash_flow_statement)
               THEN IrrOutcomes ELSE {NoIrr} :
        /\ pc = "valuation"
        /\ calc' = [calc EXCEPT
                      !.valuation = calculate_valuation(scenario, calc.periods,
                                                        calc.income_statement,
                                                        calc.cash_flow_statement, irr),
                      !.irr = irr]
        /\ audit' = [audit EXCEPT !.logger = @ \o
                        Logged(calculate_valuation_failed(scenario, calc.periods,
                                                          calc.cash_flow_statement, irr),
                               "Error calculating valuation")]
        /\ pc' = "save"
        /\ UNCHANGED <<scenario, logs, stored, outcome, budget, loan, views, pool>>

\* log.save() at the end of a run, with the status, completed_at and
\* duration_seconds, and in the except branch the message and the traceback
\* of the exception
SaveLog(status, e, errors) ==
    /\ logs' = [logs EXCEPT ![Len(logs)] = status]
    /\ audit' = [audit EXCEPT
                    !.logger = @ \o errors,
                    !.details[Len(logs)] =
                        [@ EXCEPT !.completed_at = TRUE, !.duration_seconds = TRUE,
                                  !.error_message = e, !.error_traceback = e]]

\* lines 102-114: the log is saved and the result dictionary returned
LogSuccess ==
    /\ pc = "success"
    /\ SaveLog("success", NoException, <<>>)
    /\ outcome' = Append(outcome, "returned")
    /\ pc' = "idle"
    /\ UNCHANGED <<scenario, calc, stored, budget, loan, views, pool>>

\* an except branch that raises again without saving the log
RaiseUnsaved ==
    /\ pc = "except"
    /\ pc' = "raise"
    /\ UNCHANGED <<scenario, calc, logs, stored, outcome, budget, loan, audit, views, pool>>

\* lines 116-128: the except branch logs the error and saves the log
LogFailed ==
    /\ pc = "except"
    /\ SaveLog("failed", calc.exception, <<"Calculation error">>)
    /\ pc' = "raise"
    /\ UNCHANGED <<scenario, calc, stored, outcome, budget, loan, views, pool>>

\* line 130: the exception is raised again to the caller
Reraise ==
    /\ pc = "raise"
    /\ outcome' = Append(outcome, "raised")
    /\ audit' = [audit EXCEPT !.details[Len(logs)].raised = calc.exception]
    /\ pc' = "idle"
    /\ UNCHANGED <<scenario, calc, logs, stored, budget, loan, views, pool>>

Run ==
    \/ StartRun
    \/ GeneratePeriods
    \/ CalculateRevenue
    \/ CalculateOpex
    \/ CalculateDepreciation
    \/ CalculateCapex
    \/ CalculateDebt
    \/ BuildIncomeStatement
    \/ BuildCashFlowStatement
    \/ BuildBalanceSheet
    \/ CalculateRatios
    \/ CalculateValuation
    \/ SaveDelete
    \/ SaveIncomeStatement
    \/ SaveBalanceSheet
    \/ SaveCashFlowStatement
    \/ SaveRatios
    \/ SaveValuation
    \/ SaveDebtSchedule
    \/ LogSuccess
    \/ LogFailed
    \/ Reraise

---------------------------------------------------------------------------
\* The assumption records of a scenario (src/model/models.py).  A OneToOne
\* record that does not exist has present = FALSE; amounts are in Unit.

NoMacro ==
    [present |-> FALSE, base_year |-> BaseYear, number_of_years |-> 0,
     local_inflation_rate |-> 0]

Macro(years, inflation) ==
    [present |-> TRUE, base_year |-> BaseYear, number_of_years |-> years,
     local_inflation_rate |-> inflation]

NoProject ==
    [present |-> FALSE, construction_start_year |-> BaseYear,
     operations_start_year |-> BaseYear]

Project(construction_start, operations_start) ==
    [present |-> TRUE, construction_start_year |-> construction_start,
     operations_start_year |-> operations_start]

\* a null revenue_rampup_months is 0 (both are falsy in the engine)
Product(name, volume, price, growth, escalation, rampup, seasonal) ==
    [product_name |-> name, year_1_sales_volume |-> volume,
     unit_price_year_1 |-> price, volume_growth_rate |-> growth,
     price_escalation_rate |-> escalation, revenue_rampup_months |-> rampup,
     seasonal_adjustment_factor |-> seasonal]

Opex(headcount, salary, benefits, salary_escalation, utilities, utilities_escalation, other, insurance) ==
    [present |-> TRUE, total_headcount |-> headcount,
     average_annual_salary |-> salary, benefits_payroll_tax_pct |-> benefits,
     salary_escalation_rate |-> salary_escalation,
     power_electricity_cost_annual |-> utilities, water_gas_utilities_annual |-> 0,
     utilities_escalation_rate |-> utilities_escalation,
     administrative_expenses_annual |-> other, rent_facilities_annual |-> 0,
     technology_software_annual |-> 0, professional_fees_annual |-> 0,
     insurance_annual |-> insurance]

NoOpex == [Opex(0, 0, 0, 0, 0, 0, 0, 0) EXCEPT !.present = FALSE]

Asset(category, value, life, residual) ==
    [asset_category |-> category, asset_value |-> value,
     useful_life_years |-> life, residual_value_pct |-> residual]

\* a null carpark_cost or amenities_cost is 0 (both are falsy in the engine)
Capex(construction, carpark, contingency, y1, y2, y3) ==
    [present |-> TRUE, land_cost |-> 0, construction_building_cost |-> construction,
     equipment_machinery_cost |-> 0, ffe_cost |-> 0, carpark_cost |-> carpark,
     amenities_cost |-> 0, contingency_pct |-> contingency,
     professional_fees_pct |-> 0, permits_approvals_pct |-> 0,
     vat_on_construction_pct |-> 0, year_1_drawdown_pct |-> y1,
     year_2_drawdown_pct |-> y2, year_3_drawdown_pct |-> y3]

NoCapex == [Capex(0, 0, 0, 0, 0, 0) EXCEPT !.present = FALSE]

Debt(percentage, base_rate, margin, tenor, grace_months, type) ==
    [present |-> TRUE, debt_percentage |-> percentage, base_rate_value |-> base_rate,
     interest_margin_spread |-> margin, loan_tenor_years |-> tenor,
     grace_period_months |-> grace_months, repayment_type |-> type]

NoDebt == [Debt(0, 0, 0, 1, 0, "Amortizing") EXCEPT !.present = FALSE]

Tax(rate) == [present |-> TRUE, corporate_income_tax_rate |-> rate]

NoTax == [Tax(0) EXCEPT !.present = FALSE]

ExitValuation(discount, multiple) ==
    [present |-> TRUE, discount_rate_npv_pct |-> discount,
     exit_multiple_ev_ebitda |-> multiple]

NoExitValuation == [ExitValuation(0, 0) EXCEPT !.present = FALSE]

MkScenario(macro, project, products, opex, depreciation, capex, debt, tax, valuation) ==
    [macro |-> macro, project |-> project, products |-> products, opex |-> opex,
     depreciation |-> depreciation, capex |-> capex, debt |-> debt, tax |-> tax,
     exit_valuation |-> valuation]

---------------------------------------------------------------------------
\* The scenarios of the model.

\* the product of the end-to-end scenario: volume 1000, price 100, no growth
FlatProduct == Product("P1", 1000, 100 * Unit, 0, 0, 0, 100)

ProductSets ==
    {<<>>,
     <<FlatProduct>>,
     <<Product("P1", 1000, 100 * Unit, 0, 0, 6, 100)>>,
     <<Product("P1", 10, 3 * Unit, 25, 0, 0, 100), Product("P2", 7, 5 * Unit, 0, 25, 18, 50)>>}

OpexSets ==
    {NoOpex,
     Opex(0, 0, 0, 0, 0, 0, 0, 0),
     Opex(3, 50 * Unit, 10, 0, 20 * Unit, 0, 30 * Unit, 5 * Unit),
     Opex(4, 50 * Unit, 10, 25, 20 * Unit, 25, 30 * Unit, 5 * Unit)}

DepreciationSets ==
    {<<>>,
     <<Asset("Land", 500 * Unit, 0, 0)>>,
     <<Asset("Buildings", 200 * Unit, 3, 0)>>,
     <<Asset("Buildings", 100 * Unit, 3, 10), Asset("Equipment", 100 * Unit, 2, 0)>>}

\* scenarios of operations only: no CAPEX, no debt
OperatingScenarios ==
    {MkScenario(Macro(years, inflation), Project(BaseYear, BaseYear + ops_delay),
                products, opex, depreciation, NoCapex, NoDebt, Tax(rate),
                ExitValuation(25, 8)) :
        years \in {3}, inflation \in {0, 25}, ops_delay \in {0, 1},
        products \in ProductSets, opex \in OpexSets,
        depreciation \in DepreciationSets, rate \in {0, 25}}

\* one amortizing loan drawn in full in the first repayment period
CloseOutScenarios ==
    {MkScenario(Macro(MaxYears, 0), Project(BaseYear, BaseYear), <<FlatProduct>>,
                NoOpex, <<>>, Capex(1000 * Unit, 0, 0, 100, 0, 0),
                Debt(100, base_rate, 0, tenor, 0, "Amortizing"), Tax(25),
                ExitValuation(25, 8)) :
        base_rate \in {0, 10}, tenor \in 1..MaxTenor}

\* financed CAPEX with phased drawdowns
FinancedScenarios ==
    {MkScenario(Macro(MaxYears, 0), Project(BaseYear, BaseYear + ops_delay),
                <<FlatProduct>>, NoOpex, depreciation,
                Capex(1000 * Unit, carpark, 10, 50, 30, 20),
                Debt(percentage, 8, 2, tenor, grace, type), Tax(25),
                ExitValuation(25, 8)) :
        ops_delay \in {0, 1}, depreciation \in {<<>>, <<Asset("Buildings", 200 * Unit, 3, 0)>>},
        carpark \in {0, 100 * Unit}, percentage \in {0, 60}, tenor \in {3, MaxTenor},
        grace \in {0, 18}, type \in {"Amortizing", "Bullet"}}

\* scenarios with assumption records missing, or with no periods
IncompleteScenarios ==
    {MkScenario(macro, project, <<FlatProduct>>,
                Opex(3, 50 * Unit, 10, 0, 20 * Unit, 0, 30 * Unit, 5 * Unit),
                <<Asset("Buildings", 200 * Unit, 3, 0)>>,
                Capex(1000 * Unit, 0, 0, 100, 0, 0),
                Debt(100, 10, 0, 3, 0, "Amortizing"), tax, valuation) :
        macro \in {NoMacro, Macro(0, 0), Macro(3, 0)},
        project \in {NoProject, Project(BaseYear, BaseYear)},
        tax \in {NoTax, Tax(25)},
        valuation \in {NoExitValuation, ExitValuation(25, 8)}}
    \cup {MkScenario(NoMacro, NoProject, <<>>, NoOpex, <<>>, NoCapex, NoDebt, NoTax,
                     NoExitValuation)}

\* the scenarios the caller calculates more than once
RerunScenarios ==
    {s \in IncompleteScenarios : ~s.tax.present /\ ~s.exit_valuation.present}

\* growth and escalation rates of -100%: the first period's power is 0 ** 0
EscalationScenarios ==
    {MkScenario(Macro(3, inflation), Project(BaseYear, BaseYear),
                <<Product("P1", 1000, 100 * Unit, growth, 0, 0, 100)>>,
                Opex(3, 50 * Unit, 10, salary_escalation, 20 * Unit, utilities_escalation,
                     30 * Unit, 5 * Unit),
                <<Asset("Buildings", 200 * Unit, 3, 0)>>, NoCapex, NoDebt, Tax(25),
                ExitValuation(25, 8)) :
        inflation \in {0, -100}, growth \in {0, -100},
        salary_escalation \in {0, -100}, utilities_escalation \in {0, -100}}

Scenarios ==
    OperatingScenarios \cup CloseOutScenarios \cup FinancedScenarios
    \cup IncompleteScenarios \cup EscalationScenarios

NoAudit == [logger |-> <<>>, details |-> <<>>]

\* no error text, and no time of a calculation: the null of the two columns
NoError == 0
NeverCalculated == 0

\* the row of a new FinancialModel and no request
NoViews ==
    [in_progress |-> FALSE, last_calculated_at |-> NeverCalculated,
     calculation_error |-> NoError, requests |-> <<>>]

\* no scheduler has been started as a task
NoPool == [results |-> <<>>, returned |-> <<>>]

NoLoan == [pv |-> 0, rate |-> 0, nper |-> 1, pmt |-> 0, balance |-> 0, paid |-> 0]

Init ==
    /\ scenario \in Scenarios
    /\ pc = "idle"
    /\ calc = NewEngine
    /\ logs = <<>>
    /\ stored = {}
    /\ outcome = <<>>
    /\ budget = IF scenario \in RerunScenarios THEN MaxRuns ELSE 1
    /\ loan = NoLoan
    /\ audit = NoAudit
    /\ views = NoViews
    /\ pool = NoPool

Next == Run

Spec == Init /\ [][Next]_vars

---------------------------------------------------------------------------
\* A loan repaid with the payment of _calculate_pmt: every period the
\* outstanding balance accrues interest at the rate and the payment is made.

LoanAmounts == {1000 * Unit, 250 * Unit, 12345}

LoanRates == {0, 5, 10}

InitPmt ==
    /\ scenario = MkScenario(NoMacro, NoProject, <<>>, NoOpex, <<>>, NoCapex, NoDebt,
                             NoTax, NoExitValuation)
    /\ pc = "idle"
    /\ calc = NewEngine
    /\ logs = <<>>
    /\ stored = {}
    /\ outcome = <<>>
    /\ budget = 0
    /\ audit = NoAudit
    /\ views = NoViews
    /\ pool = NoPool
    /\ \E pv \in LoanAmounts, rate \in LoanRates, nper \in 1..MaxTenor :
          loan = [pv |-> pv, rate |-> rate, nper |-> nper,
                  pmt |-> calculate_pmt(pv, rate, nper), balance |-> pv, paid |-> 0]

Repay ==
    /\ loan.paid < loan.nper
    /\ loan' = [loan EXCEPT
                  !.balance = loan.balance + MulDivRound(loan.balance, loan.rate, 100)
                              - loan.pmt,
                  !.paid = loan.paid + 1]
    /\ UNCHANGED <<scenario, pc, calc, logs, stored, outcome, budget, audit, views, pool>>

NextPmt == Repay

SpecPmt == InitPmt /\ [][NextPmt]_vars

---------------------------------------------------------------------------
\* Properties of a run.

BalanceCheck == "Balance Check (should be 0)"

\* the balance sheet of the run has been built with its line items
BalanceSheetBuilt == BalanceCheck \in DOMAIN calc.balance_sheet

IncomeStatementBuilt == "Net Income" \in DOMAIN calc.income_statement

DebtScheduleBuilt == "Closing Balance" \in DOMAIN calc.debt_schedule

\* Total Assets - (Total Liabilities + Total Equity) is within 0.01 in
\* every period
BalanceWithinTolerance ==
    \A p \in DOMAIN calc.balance_sheet[BalanceCheck] :
        Abs(calc.balance_sheet["Total Assets"][p]
            - (calc.balance_sheet["Total Liabilities"][p]
               + calc.balance_sheet["Total Equity"][p])) <= Cent

\* the last run has ended and calc holds what it computed
RunEnded == pc = "idle" /\ logs # <<>>

\* C1: in every period of every run the balance sheet value
\* Total Assets - (Total Liabilities + Total Equity) is at most 0.01 in
\* absolute value.
C1_BalanceInvariant == BalanceSheetBuilt => BalanceWithinTolerance

\* C2: a run whose Balance Check exceeds 0.01 in some period does not end
\* in success: its log ends failed, the exception reaches the caller and
\* no series of the run is stored.
C2_ImbalanceIsFatal ==
    (RunEnded /\ BalanceSheetBuilt /\ ~BalanceWithinTolerance)
        => /\ logs[Len(logs)] = "failed"
           /\ outcome[Len(outcome)] = "raised"
           /\ \A row \in stored : row.run # Len(logs)

\* a series is zero in every period
ZeroSeries(series) == \A p \in DOMAIN series : series[p] = 0

\* zero opex, zero CAPEX, zero debt and 0% tax, read off the run
ZeroCosts ==
    /\ ZeroSeries(calc.income_statement["Total Operating Expenses"])
    /\ ZeroSeries(calc.capex_schedule)
    /\ \A item \in DOMAIN calc.debt_schedule : ZeroSeries(calc.debt_schedule[item])
    /\ scenario.tax.corporate_income_tax_rate = 0

\* Net Income equals Total Revenue in every period and Cash is its running sum
NetIncomeIsRevenue ==
    /\ calc.income_statement["Net Income"] = calc.income_statement["Total Revenue"]
    /\ \A i \in DOMAIN calc.periods :
          calc.balance_sheet["Cash"][calc.periods[i]]
              = (IF i = 1 THEN 0 ELSE calc.balance_sheet["Cash"][calc.periods[i - 1]])
                + calc.income_statement["Net Income"][calc.periods[i]]

\* one product (volume 1000, price 100, no growth, no escalation) over 3 periods
EndToEndScenario ==
    /\ scenario.products = <<FlatProduct>>
    /\ scenario.depreciation = <<>>
    /\ Len(calc.periods) = 3

EndToEndValues ==
    /\ \A p \in PeriodSet(calc.periods) :
          /\ calc.income_statement["Total Revenue"][p] = 100000 * Unit
          /\ calc.income_statement["Net Income"][p] = 100000 * Unit
          /\ calc.balance_sheet[BalanceCheck][p] = 0
    /\ \A i \in DOMAIN calc.periods :
          calc.balance_sheet["Cash"][calc.periods[i]] = i * 100000 * Unit

\* C3 as stated: with zero opex, CAPEX, debt and tax, Net Income equals Total
\* Revenue in every period and Cash is its running sum.
C3_AsStated == (BalanceSheetBuilt /\ ZeroCosts) => NetIncomeIsRevenue

\* C3: with zero opex, CAPEX, debt and tax and no depreciation, Net Income
\* equals Total Revenue in every period, Cash is its running sum and the
\* Balance Check is 0; for the one-product scenario over 3 periods Total
\* Revenue = Net Income = 100000 in each period and Cash is 100000, 200000,
\* 300000.
C3_EndToEnd ==
    (BalanceSheetBuilt /\ ZeroCosts /\ ZeroSeries(calc.income_statement["Depreciation"]))
        => /\ NetIncomeIsRevenue
           /\ ZeroSeries(calc.balance_sheet[BalanceCheck])
           /\ (EndToEndScenario => EndToEndValues)

C3_Witness ==
    /\ BalanceSheetBuilt /\ ZeroCosts /\ EndToEndScenario
    /\ calc.balance_sheet["Cash"][calc.periods[3]] = 300000 * Unit
    /\ calc.income_statement["Net Income"][calc.periods[2]] = 100000 * Unit

\* an amortizing loan with grace period 0 drawn once, in the first
\* repayment period, with its n repayment periods on the timeline
SingleDrawdownLoan ==
    /\ scenario.debt.present /\ scenario.capex.present /\ scenario.project.present
    /\ scenario.debt.repayment_type = "Amortizing"
    /\ scenario.debt.grace_period_months = 0
    /\ scenario.debt.debt_percentage > 0
    /\ capex_hard_costs(scenario.capex) > 0
    /\ scenario.capex.year_1_drawdown_pct > 0
    /\ scenario.capex.year_2_drawdown_pct = 0
    /\ scenario.capex.year_3_drawdown_pct = 0
    /\ scenario.project.construction_start_year = repayment_start_year(scenario)
    /\ calc.periods # <<>>
    /\ calc.periods[1] = repayment_start_year(scenario)
    /\ Len(calc.periods) >= scenario.debt.loan_tenor_years

\* C4: for an amortizing loan with tenor n, grace period 0 and a single
\* drawdown made in the first repayment period, the Closing Balance is 0 at
\* the n-th repayment period and is not negative in any earlier period.
C4_DebtCloseOut ==
    (DebtScheduleBuilt /\ SingleDrawdownLoan)
        => \A i \in 1..scenario.debt.loan_tenor_years :
              IF i = scenario.debt.loan_tenor_years
              THEN calc.debt_schedule["Closing Balance"][calc.periods[i]] = 0
              ELSE calc.debt_schedule["Closing Balance"][calc.periods[i]] >= 0

\* C5: in every period of the Income Statement Tax Expense is greater than
\* or equal to 0, and it is exactly 0 whenever EBT is less than or equal to 0.
C5_NonNegativeTax ==
    IncomeStatementBuilt
        => \A p \in DOMAIN calc.income_statement["Tax Expense"] :
              /\ calc.income_statement["Tax Expense"][p] >= 0
              /\ calc.income_statement["EBT"][p] <= 0
                    => calc.income_statement["Tax Expense"][p] = 0

\* a loss in one period and a taxed profit in another
C5_Witness ==
    /\ IncomeStatementBuilt
    /\ \E p, q \in DOMAIN calc.income_statement["EBT"] :
          /\ calc.income_statement["EBT"][p] < 0
          /\ calc.income_statement["Tax Expense"][p] = 0
          /\ calc.income_statement["EBT"][q] > 0
          /\ calc.income_statement["Tax Expense"][q] > 0

\* the depreciation schedule of the run has been computed
DepreciationBuilt ==
    pc \notin {"idle", "periods", "revenue", "opex", "depreciation"}

\* C6: for every asset category the sum over all periods of the reported
\* depreciation never exceeds asset_value * (1 - residual_pct/100).
C6_DepreciationBound ==
    DepreciationBuilt
        => \A k \in DOMAIN scenario.depreciation :
              LET schedule == scenario.depreciation[k]
                  series == IF schedule.asset_category \in DOMAIN calc.depreciation_schedule
                            THEN calc.depreciation_schedule[schedule.asset_category]
                            ELSE Zeros(calc.periods)
              IN  100 * SumOver(series, DOMAIN series)
                      <= schedule.asset_value * (100 - schedule.residual_value_pct)

\* every growth and escalation rate of the scenario is 0
ZeroGrowth ==
    /\ scenario.macro.local_inflation_rate = 0
    /\ scenario.opex.salary_escalation_rate = 0
    /\ scenario.opex.utilities_escalation_rate = 0
    /\ \A k \in DOMAIN scenario.products :
          /\ scenario.products[k].volume_growth_rate = 0
          /\ scenario.products[k].price_escalation_rate = 0

\* every period from the from-th on has the value of the from-th period;
\* the ramp-up of a product applies to the first period only, so the periods
\* after the ramp-up period are those from the 2nd on
ConstantFrom(series, from) ==
    \A i \in DOMAIN calc.periods :
        i >= from => series[calc.periods[i]] = series[calc.periods[from]]

\* C7 as stated: if all growth and escalation rates are 0, every revenue
\* series has the same value in every period after the ramp-up period, and
\* every opex and depreciation series has its first-period value in every
\* period.
C7_AsStated ==
    (DepreciationBuilt /\ ZeroGrowth)
        => /\ \A name \in DOMAIN calc.revenue_schedule :
                 ConstantFrom(calc.revenue_schedule[name], 2)
           /\ \A item \in DOMAIN calc.opex_schedule :
                 ConstantFrom(calc.opex_schedule[item], 1)
           /\ \A cat \in DOMAIN calc.depreciation_schedule :
                 ConstantFrom(calc.depreciation_schedule[cat], 1)

\* the periods in which an asset is depreciated
InUsefulLife(schedule, p) ==
    /\ p >= scenario.project.operations_start_year
    /\ p - scenario.project.operations_start_year < schedule.useful_life_years

\* C7: if all growth and escalation rates are 0, every revenue series has
\* the same value in every period after the ramp-up period (and in the
\* first period too for a product without ramp-up), every opex series has
\* its first-period value in every period, and every depreciation series
\* has one value in all periods of the asset's useful life from operations
\* start and 0 in all others.
C7_ZeroGrowth ==
    (DepreciationBuilt /\ ZeroGrowth)
        => /\ \A k \in DOMAIN scenario.products :
                 LET series == calc.revenue_schedule[scenario.products[k].product_name]
                 IN  /\ ConstantFrom(series, 2)
                     /\ scenario.products[k].revenue_rampup_months = 0
                           => ConstantFrom(series, 1)
           /\ \A item \in DOMAIN calc.opex_schedule :
                 ConstantFrom(calc.opex_schedule[item], 1)
           /\ \A k \in DOMAIN scenario.depreciation :
                 LET schedule == scenario.depreciation[k]
                     cat == schedule.asset_category
                 IN  cat \in DOMAIN calc.depreciation_schedule
                        => \A p, q \in PeriodSet(calc.periods) :
                              LET series == calc.depreciation_schedule[cat]
                              IN  /\ (InUsefulLife(schedule, p) /\ InUsefulLife(schedule, q))
                                        => series[p] = series[q]
                                  /\ ~InUsefulLife(schedule, p) => series[p] = 0

\* zero rates with a ramped-up product, running costs and an asset whose
\* useful life ends on the timeline
C7_Witness ==
    /\ DepreciationBuilt /\ ZeroGrowth
    /\ Len(calc.periods) >= 2
    /\ \E name \in DOMAIN calc.revenue_schedule :
          calc.revenue_schedule[name][calc.periods[1]]
              < calc.revenue_schedule[name][calc.periods[2]]
    /\ \E item \in DOMAIN calc.opex_schedule :
          calc.opex_schedule[item][calc.periods[Len(calc.periods)]] > 0
    /\ \E cat \in DOMAIN calc.depreciation_schedule :
          /\ calc.depreciation_schedule[cat][calc.periods[1]] > 0
          /\ calc.depreciation_schedule[cat][calc.periods[Len(calc.periods)]] = 0

\* C8: _calculate_pmt(pv, 0, n) is pv/n (to the last digit kept), and for
\* rate > 0 paying the returned amount for n periods while interest accrues
\* at that rate on the outstanding balance amortizes pv to 0 within 0.01.
C8_PmtAmortizes ==
    /\ loan.rate = 0 => 2 * Abs(loan.pmt * loan.nper - loan.pv) <= loan.nper
    /\ (loan.rate > 0 /\ loan.paid = loan.nper) => Abs(loan.balance) <= Cent

\* a loan at a positive rate repaid over several periods, interest included
C8_Witness ==
    /\ loan.rate > 0
    /\ loan.nper >= 2
    /\ loan.paid = loan.nper
    /\ loan.pmt * loan.nper > loan.pv
    /\ Abs(loan.balance) <= Cent

\* the status of a run that has ended
Terminal == {"success", "failed"}

\* the calls of calculate_scenario the caller makes for the scenario
Calls == IF scenario \in RerunScenarios THEN MaxRuns ELSE 1

C10_AllOrNothing ==
    \A i \in DOMAIN logs :
        logs[i] = "failed" => \A row \in stored : row.run # i

---------------------------------------------------------------------------
\* The result set of a run.

\* lines 53-94: the six statements _save_results is called with, as a
\* function of the scenario and of what np.irr does
run_results(s, irr) ==
    LET periods == generate_periods(s)
        revenue_schedule == calculate_revenue(s, periods)
        opex_schedule == calculate_opex(s, periods)
        depreciation_schedule == calculate_depreciation(s, periods)
        capex_schedule == calculate_capex(s, periods)
        debt_schedule == calculate_debt(s, periods)
        income_statement ==
            build_income_statement(s, periods, revenue_schedule, opex_schedule,
                                   depreciation_schedule, debt_schedule)
        cash_flow_statement ==
            build_cash_flow_statement(periods, income_statement, capex_schedule,
                                      debt_schedule)
        balance_sheet ==
            build_balance_sheet(periods, income_statement, cash_flow_statement,
                                capex_schedule, debt_schedule)
    IN  [income_statement |-> income_statement,
         balance_sheet |-> balance_sheet,
         cash_flow_statement |-> cash_flow_statement,
         ratios |-> calculate_ratios(periods, income_statement, balance_sheet,
                                     debt_schedule),
         valuation |-> calculate_valuation(s, periods, income_statement,
                                           cash_flow_statement, irr),
         debt_schedule |-> debt_schedule]

\* every row _save_results creates for the statements of a run
AllRows(results, run) ==
    LET Full(statement_type, order, statement) ==
            Rows(statement_type, order, statement, Len(ItemsOf(order, statement)), run)
    IN  Full("is", IncomeItems, results.income_statement)
        \cup Full("bs", BalanceItems, results.balance_sheet)
        \cup Full("cfs", CashFlowItems, results.cash_flow_statement)
        \cup Full("ratio", RatioItems, results.ratios)
        \cup Full("valuation", <<"Valuation Metrics">>,
                  [item \in {"Valuation Metrics"} |-> results.valuation])
        \cup Full("debt", DebtItems, results.debt_schedule)

\* the stored rows are the complete set of the run-th run
CompleteSetOf(run) ==
    \E irr \in IrrOutcomes : stored = AllRows(run_results(scenario, irr), run)

\* C11: in every reachable state, including during a run and after a
\* failed run, the stored series set of the scenario is the complete set of
\* one earlier successful run or the complete set of the current run, never
\* empty after the delete and never a partial set (it is empty only as long
\* as no run has written).
C11_AtomicResultSet ==
    \/ stored = {} /\ \A i \in DOMAIN logs : logs[i] # "success"
    \/ \E run \in DOMAIN logs :
          /\ CompleteSetOf(run)
          /\ logs[run] = "success" \/ (run = Len(logs) /\ pc = "success")

\* C12: after a successful run the stored series of the scenario are exactly
\* the line items produced by that run: every series stored by an earlier
\* run has been deleted, none is merged or left over.
C12_ReplacedOnSuccess ==
    (RunEnded /\ logs[Len(logs)] = "success")
        => /\ stored = AllRows(calc, Len(logs))
           /\ \A row \in stored : row.run = Len(logs)

\* a second successful run over the rows a first successful run had stored
C12_Witness ==
    /\ RunEnded
    /\ logs = <<"success", "success">>
    /\ stored # {}
    /\ \A row \in stored : row.run = 2

----------------------------------------------------------------------------
\* The two calculate endpoints of views.py serving requests for one scenario
\* of one financial model. Every request is served by its own worker; the
\* workers share the model's row, of which each holds the copy it read.

MaxRequests == 2

Endpoints == {"model", "scenario"}

\* the request and its instance of the model, not yet read
NewRequest(endpoint) ==
    [endpoint |-> endpoint, at |-> "get_object", is_calculation_in_progress |-> FALSE,
     last_calculated_at |-> NeverCalculated, calculation_error |-> NoError,
     response |-> 0]

\* model.save(): without update_fields every column of the row is written
\* from the instance of the request
ModelSave(row, model) ==
    [row EXCEPT !.in_progress = model.is_calculation_in_progress,
                !.last_calculated_at = model.last_calculated_at,
                !.calculation_error = model.calculation_error]

InitViews ==
    /\ scenario = MkScenario(NoMacro, NoProject, <<>>, NoOpex, <<>>, NoCapex, NoDebt,
                             NoTax, NoExitValuation)
    /\ pc = "idle"
    /\ calc = NewEngine
    /\ logs = <<>>
    /\ stored = {}
    /\ outcome = <<>>
    /\ budget = 0
    /\ loan = NoLoan
    /\ audit = NoAudit
    /\ views = NoViews
    /\ pool = NoPool

ViewsUnchanged ==
    UNCHANGED <<scenario, pc, calc, logs, stored, outcome, budget, loan, audit, pool>>

\* a client calls one of the two endpoints
Request ==
    /\ Len(views.requests) < MaxRequests
    /\ \E endpoint \in Endpoints :
          views' = [views EXCEPT !.requests = Append(@, NewRequest(endpoint))]
    /\ ViewsUnchanged

\* self.get_object(): the model endpoint reads the model's row with its flag,
\* the scenario endpoint reads the scenario and goes on to the engine
GetObject ==
    \E r \in DOMAIN views.requests :
    /\ views.requests[r].at = "get_object"
    /\ views' = [views EXCEPT !.requests[r] =
                    IF @.endpoint = "model"
                    THEN [@ EXCEPT !.at = "check",
                                   !.is_calculation_in_progress = views.in_progress,
                                   !.last_calculated_at = views.last_calculated_at,
                                   !.calculation_error = views.calculation_error]
                    ELSE [@ EXCEPT !.at = "calculate"]]
    /\ ViewsUnchanged

\* if model.is_calculation_in_progress: return 409
CheckInProgress ==
    \E r \in DOMAIN views.requests :
    /\ views.requests[r].at = "check"
    /\ views' = [views EXCEPT !.requests[r] =
                    IF @.is_calculation_in_progress
                    THEN [@ EXCEPT !.at = "done", !.response = 409]
                    ELSE [@ EXCEPT !.at = "mark"]]
    /\ ViewsUnchanged

\* model.is_calculation_in_progress = True; model.save()
MarkInProgress ==
    \E r \in DOMAIN views.requests :
    /\ views.requests[r].at = "mark"
    /\ LET model == [views.requests[r] EXCEPT !.at = "calculate",
                                              !.is_calculation_in_progress = TRUE]
       IN  views' = [ModelSave(views, model) EXCEPT !.requests[r] = model]
    /\ ViewsUnchanged

\* engine.calculate_scenario(scenario, ...) is entered
CalculateScenario ==
    \E r \in DOMAIN views.requests :
    /\ views.requests[r].at = "calculate"
    /\ views' = [views EXCEPT !.requests[r].at = "running"]
    /\ ViewsUnchanged

\* the run returns its result or raises; the scenario endpoint answers, the
\* model endpoint still has to clear the flag
EngineReturns ==
    \E r \in DOMAIN views.requests :
    /\ views.requests[r].at = "running"
    /\ \E response \in {200, 400} :
          views' = [views EXCEPT !.requests[r] =
                       [@ EXCEPT !.at = IF views.requests[r].endpoint = "model"
                                        THEN "clear" ELSE "done",
                                 !.response = response]]
    /\ ViewsUnchanged

\* lines 78-81 after the loop: the flag is False, last_calculated_at is
\* timezone.now() (the time of the r-th request's completion) and
\* calculation_error is None; lines 90-92 in the except branch: the flag is
\* False and calculation_error is str(e) (the error of the r-th request);
\* model.save() on both paths
ClearInProgress ==
    \E r \in DOMAIN views.requests :
    /\ views.requests[r].at = "clear"
    /\ LET model == IF views.requests[r].response = 200
                    THEN [views.requests[r] EXCEPT !.at = "done",
                                                   !.is_calculation_in_progress = FALSE,
                                                   !.last_calculated_at = r,
                                                   !.calculation_error = NoError]
                    ELSE [views.requests[r] EXCEPT !.at = "done",
                                                   !.is_calculation_in_progress = FALSE,
                                                   !.calculation_error = r]
       IN  views' = [ModelSave(views, model) EXCEPT !.requests[r] = model]
    /\ ViewsUnchanged

NextViews ==
    \/ Request
    \/ GetObject
    \/ CheckInProgress
    \/ MarkInProgress
    \/ CalculateScenario
    \/ EngineReturns
    \/ ClearInProgress

SpecViews == InitViews /\ [][NextViews]_vars

\* the requests whose run of the scenario is in flight
RunsInFlight == {r \in DOMAIN views.requests : views.requests[r].at = "running"}

\* C13: at no time are two calculation runs in flight for the same scenario,
\* for any interleaving of requests to the two calculate endpoints
C13_NoConcurrentRuns == Cardinality(RunsInFlight) <= 1

\* the macro and project records exist and the period count is not positive
NonPositivePeriodCount ==
    /\ scenario.macro.present
    /\ scenario.project.present
    /\ scenario.macro.number_of_years <= 0

\* C14: when number_of_years is less than or equal to 0 the period generator
\* fails and the run does not end in 'success': it ends 'failed' with the
\* error raised to the caller.
C14_NonPositivePeriodCount ==
    (RunEnded /\ NonPositivePeriodCount)
        => /\ logs[Len(logs)] = "failed"
           /\ outcome[Len(outcome)] = "raised"

\* C15: every series stored by a run, in all six categories including
\* valuation, is a mapping whose keys are exactly the run's period labels.
C15_KeyedByPeriod ==
    (RunEnded /\ logs[Len(logs)] = "success")
        => \A row \in stored : DOMAIN row.values_by_period = PeriodSet(calc.periods)

\* what the CalculationLog row of a run says in its text fields
LogText(run) ==
    {audit.details[run].error_message[i] : i \in DOMAIN audit.details[run].error_message}
    \cup {audit.details[run].error_traceback[i] :
             i \in DOMAIN audit.details[run].error_traceback}

\* what the process logger has been given
LoggerLines == {audit.logger[i] : i \in DOMAIN audit.logger}

\* C16: when derivation of the period sequence fails the run continues with
\* the fixed fallback window of periods, and the substitution is recorded in
\* the log of the run.
C16_FallbackRecorded ==
    (RunEnded /\ generate_periods_failed(scenario))
        => /\ Len(calc.periods) = FallbackYears
           /\ "Error generating periods" \in LogText(Len(logs))

\* every series of a schedule is zero in every period of the timeline
AllZero(schedule) == \A item \in DOMAIN schedule : schedule[item] = Zeros(calc.periods)

\* C17: when one of the five leaf schedulers fails internally, at any point
\* of its computation, its output is zero-valued series over every period:
\* no partially computed series of that scheduler survives.
C17_ZeroOnFailure ==
    RunEnded
        => /\ calculate_revenue_failed(scenario, calc.periods)
                => AllZero(calc.revenue_schedule)
           /\ calculate_opex_failed(scenario, calc.periods) => AllZero(calc.opex_schedule)
           /\ calculate_depreciation_failed(scenario)
                => AllZero(calc.depreciation_schedule)
           /\ calculate_capex_failed(scenario) => calc.capex_schedule = Zeros(calc.periods)
           /\ calculate_debt_failed(scenario) => AllZero(calc.debt_schedule)

\* a scenario with no assumption records at all
EmptyScenario ==
    MkScenario(NoMacro, NoProject, <<>>, NoOpex, <<>>, NoCapex, NoDebt, NoTax,
               NoExitValuation)

\* C18: calculate_scenario called on a scenario that has no assumption
\* records at all returns a result with status 'success' and leaves the log
\* of the run in 'success'.
C18_EmptyScenarioSucceeds ==
    (RunEnded /\ scenario = EmptyScenario)
        => /\ logs[Len(logs)] = "success"
           /\ outcome[Len(outcome)] = "returned"

\* the series stored for a line item of a statement
StoredSeries(statement_type, line_item) ==
    (CHOOSE row \in stored :
        row.statement_type = statement_type /\ row.line_item = line_item).values_by_period

\* a successful run has ended and has stored an income statement
IncomeStatementStored ==
    /\ RunEnded
    /\ logs[Len(logs)] = "success"
    /\ \E row \in stored : row.statement_type = "is"

\* the identities of the stored income statement that involve no rounding
IncomeIdentities(p) ==
    /\ StoredSeries("is", "EBITDA")[p]
          = StoredSeries("is", "Total Revenue")[p]
            - StoredSeries("is", "Total Operating Expenses")[p]
    /\ StoredSeries("is", "EBIT")[p]
          = StoredSeries("is", "EBITDA")[p] - StoredSeries("is", "Depreciation")[p]
    /\ StoredSeries("is", "EBT")[p]
          = StoredSeries("is", "EBIT")[p] - StoredSeries("is", "Interest Expense")[p]
    /\ StoredSeries("is", "Net Income")[p]
          = StoredSeries("is", "EBT")[p] - StoredSeries("is", "Tax Expense")[p]
    /\ StoredSeries("is", "Interest Expense")[p]
          = StoredSeries("debt", "Interest Expense")[p]

\* 100 * tax - taxable * rate, computed without leaving the integer range
TaxDifference(tax, taxable, rate) ==
    100 * (tax - (taxable \div 100) * rate) - (taxable % 100) * rate

\* C19 as stated: Tax Expense is max(0, EBT) * tax_rate / 100 exactly.
C19_AsStated ==
    IncomeStatementStored
        => \A p \in PeriodSet(calc.periods) :
              /\ IncomeIdentities(p)
              /\ TaxDifference(StoredSeries("is", "Tax Expense")[p],
                               Max(0, StoredSeries("is", "EBT")[p]),
                               scenario.tax.corporate_income_tax_rate) = 0

\* C19: in every period of every successful run the stored income statement
\* satisfies EBITDA = Total Revenue - Total Operating Expenses,
\* EBIT = EBITDA - Depreciation, EBT = EBIT - Interest Expense,
\* Net Income = EBT - Tax Expense, with the interest of the debt schedule,
\* and Tax Expense is max(0, EBT) * tax_rate / 100 rounded to the cent.
C19_IncomeStatement ==
    IncomeStatementStored
        => \A p \in PeriodSet(calc.periods) :
              /\ IncomeIdentities(p)
              /\ StoredSeries("is", "Tax Expense")[p] % Cent = 0
              /\ Abs(TaxDifference(StoredSeries("is", "Tax Expense")[p],
                                   Max(0, StoredSeries("is", "EBT")[p]),
                                   scenario.tax.corporate_income_tax_rate)) <= 50 * Cent

\* a successful run with interest and tax to pay in some period
C19_Witness ==
    /\ IncomeStatementStored
    /\ \E p \in PeriodSet(calc.periods) :
          /\ StoredSeries("is", "Interest Expense")[p] > 0
          /\ StoredSeries("is", "Tax Expense")[p] > 0
          /\ StoredSeries("is", "Total Operating Expenses")[p] > 0

\* the log row of a run holds the failure: status, completion time, duration
\* and the message and traceback of the exception of the engine
FailureSaved(run) ==
    /\ logs[run] = "failed"
    /\ audit.details[run].completed_at
    /\ audit.details[run].duration_seconds
    /\ audit.details[run].error_message # NoException
    /\ audit.details[run].error_message = calc.exception
    /\ audit.details[run].error_traceback = calc.exception

\* C20: when a run fails, the log of the run has been saved with status
\* 'failed', completion time, duration, the message of the triggering
\* exception and its traceback before the exception is re-raised, and the
\* exception the caller receives is the triggering one.
C20_FailurePersisted ==
    /\ [](pc = "raise"
            => /\ FailureSaved(Len(logs))
               /\ Len(outcome) = Len(logs) - 1
               /\ audit.details[Len(logs)].raised = NoException)
    /\ [][(Len(outcome') > Len(outcome) /\ outcome'[Len(outcome')] = "raised")
            => /\ pc = "raise"
               /\ logs' = logs
               /\ audit'.details[Len(logs)]
                     = [audit.details[Len(logs)] EXCEPT !.raised = calc.exception]]_vars
    /\ [](\A run \in DOMAIN outcome :
            /\ logs[run] = "failed" <=> outcome[run] = "raised"
            /\ outcome[run] = "raised"
                  => /\ audit.details[run].completed_at
                     /\ audit.details[run].duration_seconds
                     /\ audit.details[run].error_message # NoException
                     /\ audit.details[run].error_traceback
                           = audit.details[run].error_message
                     /\ audit.details[run].raised = audit.details[run].error_message)

\* a run has failed on a create and its exception has reached the caller
C20_Witness ==
    /\ RunEnded
    /\ outcome[Len(outcome)] = "raised"
    /\ FailureSaved(Len(logs))
    /\ audit.details[Len(logs)].raised = CreateError("debt", "Opening Balance")

\* a successful run has ended and has stored its debt schedule
DebtScheduleStored ==
    /\ RunEnded
    /\ logs[Len(logs)] = "success"
    /\ \E row \in stored : row.statement_type = "debt"

\* C21: in the stored debt schedule the Opening Balance of the first period
\* is 0, the Opening Balance of every later period equals the stored Closing
\* Balance of the period before it, and in every period Closing Balance =
\* Opening Balance + Drawdowns - Principal Repayment on the stored values.
C21_DebtRollForward ==
    DebtScheduleStored
        => \A i \in DOMAIN calc.periods :
              /\ StoredSeries("debt", "Opening Balance")[calc.periods[i]]
                    = IF i = 1 THEN 0
                      ELSE StoredSeries("debt", "Closing Balance")[calc.periods[i - 1]]
              /\ StoredSeries("debt", "Closing Balance")[calc.periods[i]]
                    = StoredSeries("debt", "Opening Balance")[calc.periods[i]]
                      + StoredSeries("debt", "Drawdowns")[calc.periods[i]]
                      - StoredSeries("debt", "Principal Repayment")[calc.periods[i]]

\* the run has ended and its debt schedule was computed from the records
DebtScheduleComputed == RunEnded /\ ~calculate_debt_failed(scenario)

\* the drawdown of the period is the scheduled CAPEX of the period times
\* debt_percentage / 100, within a cent
DrawdownFollowsCapex(p) ==
    Abs(100 * calc.debt_schedule["Drawdowns"][p]
        - calc.capex_schedule[p] * scenario.debt.debt_percentage) <= 100 * Cent

\* C22: the debt principal is sized from the total CAPEX that the CAPEX
\* scheduler allocates: in every period the drawdown of the debt schedule is
\* that period's scheduled CAPEX times debt_percentage / 100, within
\* rounding, whatever the hard-cost components, the carpark and amenities
\* add-ons included, and it is 0 outside the first three periods from
\* construction start.
C22_DrawdownFromCapex ==
    DebtScheduleComputed
        => \A p \in PeriodSet(calc.periods) :
              /\ DrawdownFollowsCapex(p)
              /\ p - scenario.project.construction_start_year \notin {0, 1, 2}
                    => calc.debt_schedule["Drawdowns"][p] = 0

\* the period lies before operations start plus the grace period, the grace
\* period taken in months
InGracePeriod(p) ==
    12 * (p - scenario.project.operations_start_year) < scenario.debt.grace_period_months

\* C23: Principal Repayment is 0 in every period earlier than operations
\* start plus the grace period, the grace period taken in years as
\* grace_period_months / 12, grace periods that are not a whole number of
\* years included.
C23_NoRepaymentInGrace ==
    DebtScheduleComputed
        => \A p \in PeriodSet(calc.periods) :
              InGracePeriod(p) => calc.debt_schedule["Principal Repayment"][p] = 0

\* the scheduled close-out period of the loan: repayment start plus tenor
CloseOutYear == repayment_start_year(scenario) + scenario.debt.loan_tenor_years

\* C24: for a repayment type other than 'Amortizing' Principal Repayment is
\* 0 in every period except the scheduled close-out period, where the full
\* outstanding balance is repaid.
C24_BulletCloseOut ==
    (DebtScheduleComputed /\ scenario.debt.repayment_type # "Amortizing")
        => \A p \in PeriodSet(calc.periods) :
              IF p = CloseOutYear
              THEN /\ Abs(calc.debt_schedule["Principal Repayment"][p]
                          - (calc.debt_schedule["Opening Balance"][p]
                             + calc.debt_schedule["Drawdowns"][p])) <= Cent
                   /\ calc.debt_schedule["Closing Balance"][p] = 0
              ELSE calc.debt_schedule["Principal Repayment"][p] = 0

\* every stored value of the statements kept by period has 2 decimal places
StoredToTheCent ==
    \A row \in stored :
        row.statement_type # "valuation"
            => \A p \in DOMAIN row.values_by_period : row.values_by_period[p] % Cent = 0

\* the stored Tax Expense is the exact tax rounded half-up to the cent: it
\* is above the exact value by at most half a cent and below it by less
TaxRoundedHalfUp ==
    IncomeStatementStored
        => \A p \in PeriodSet(calc.periods) :
              LET difference ==
                      TaxDifference(StoredSeries("is", "Tax Expense")[p],
                                    Max(0, StoredSeries("is", "EBT")[p]),
                                    scenario.tax.corporate_income_tax_rate)
              IN  -50 * Cent < difference /\ difference <= 50 * Cent

\* C25: every finalized line-item value is rounded to 2 decimal places with
\* round-half-up: a value exactly half a cent above a cent boundary rounds
\* up.
C25_RoundHalfUp == StoredToTheCent /\ TaxRoundedHalfUp

----------------------------------------------------------------------------
\* Steps 2 to 6 of calculate_scenario with the five leaf schedulers run as
\* tasks: after the periods are generated each scheduler is started at any
\* time, computes its schedule from the engine as it finds it, and returns
\* it to the local of calculate_scenario at any later time.

Schedulers == {"revenue", "opex", "depreciation", "capex", "debt"}

\* scenarios with a financed CAPEX; they have no opex record, so that one of
\* the schedulers fails
SchedulerScenarios ==
    {s \in FinancedScenarios :
        /\ s.capex.carpark_cost > 0
        /\ s.debt.debt_percentage > 0
        /\ s.debt.loan_tenor_years < MaxTenor
        /\ s.depreciation # <<>>}

\* the local of calculate_scenario that receives the schedule
SchedulerField(k) ==
    CASE k = "revenue" -> "revenue_schedule"
      [] k = "opex" -> "opex_schedule"
      [] k = "depreciation" -> "depreciation_schedule"
      [] k = "capex" -> "capex_schedule"
      [] OTHER -> "debt_schedule"

\* what the scheduler computes when it runs now
SchedulerResult(k) ==
    CASE k = "revenue" -> calculate_revenue(scenario, calc.periods)
      [] k = "opex" -> calculate_opex(scenario, calc.periods)
      [] k = "depreciation" -> calculate_depreciation(scenario, calc.periods)
      [] k = "capex" -> calculate_capex(scenario, calc.periods)
      [] OTHER -> calculate_debt(scenario, calc.periods)

\* what its except branch writes with logger.error when it runs now
SchedulerErrors(k) ==
    CASE k = "revenue" -> Logged(calculate_revenue_failed(scenario, calc.periods),
                                 "Error calculating revenue")
      [] k = "opex" -> Logged(calculate_opex_failed(scenario, calc.periods),
                              "Error calculating opex")
      [] k = "depreciation" -> Logged(calculate_depreciation_failed(scenario),
                                      "Error calculating depreciation")
      [] k = "capex" -> Logged(calculate_capex_failed(scenario), "Error calculating capex")
      [] OTHER -> Logged(calculate_debt_failed(scenario), "Error calculating debt")

InitSchedulers ==
    /\ scenario \in SchedulerScenarios
    /\ pc = "idle"
    /\ calc = NewEngine
    /\ logs = <<>>
    /\ stored = {}
    /\ outcome = <<>>
    /\ budget = 1
    /\ loan = NoLoan
    /\ audit = NoAudit
    /\ views = NoViews
    /\ pool = NoPool

\* a scheduler runs: it reads the scenario and the periods and builds its
\* schedule in a dictionary of its own
SchedulerRuns ==
    /\ pc = "revenue"
    /\ \E k \in Schedulers \ DOMAIN pool.results :
          /\ pool' = [pool EXCEPT !.results =
                         [j \in DOMAIN pool.results \cup {k} |->
                             IF j = k THEN SchedulerResult(k) ELSE pool.results[j]]]
          /\ audit' = [audit EXCEPT !.logger = @ \o SchedulerErrors(k)]
    /\ UNCHANGED <<scenario, pc, calc, logs, stored, outcome, budget, loan, views>>

\* a scheduler returns: its schedule is assigned to the local
SchedulerReturns ==
    /\ pc = "revenue"
    /\ \E k \in DOMAIN pool.results :
          /\ \A i \in DOMAIN pool.returned : pool.returned[i] # k
          /\ calc' = [calc EXCEPT ![SchedulerField(k)] = pool.results[k]]
          /\ pool' = [pool EXCEPT !.returned = Append(@, k)]
    /\ UNCHANGED <<scenario, pc, logs, stored, outcome, budget, loan, audit, views>>

\* all five schedules exist: the statements are built from them
SchedulersJoin ==
    /\ pc = "revenue"
    /\ Len(pool.returned) = Cardinality(Schedulers)
    /\ pc' = "is"
    /\ UNCHANGED <<scenario, calc, logs, stored, outcome, budget, loan, audit, views, pool>>

NextSchedulers ==
    \/ StartRun
    \/ GeneratePeriods
    \/ SchedulerRuns
    \/ SchedulerReturns
    \/ SchedulersJoin

SpecSchedulers == InitSchedulers /\ [][NextSchedulers]_vars

---------------------------------------------------------------------------
\* The valuation stage.

\* the valuation stage has run and np.irr was called on a timeline that has a
\* last period
IrrCalled == calc.irr # NoIrr /\ calc.periods # <<>>

\* C27: when np.irr raises or does not converge (it returns nan), the
\* valuation reports IRR (%) = 0, the stage raises nothing (the only
\* exception the run can have met is one of the persistence step after it),
\* and NPV and Terminal Value = final-period EBITDA times the exit multiple
\* are still produced.
C27_IrrFallback ==
    (IrrCalled /\ calc.irr \in {"raises", "nan"})
        => /\ calc.exception = NoException \/ calc.exception[1] = "create"
           /\ DOMAIN calc.valuation = {"NPV", "IRR (%)", "Terminal Value"}
           /\ calc.valuation["IRR (%)"] = 0
           /\ calc.valuation["NPV"]
                = calculate_npv(calc.periods,
                                calc.cash_flow_statement["Cash Flow from Operations"],
                                scenario.exit_valuation.discount_rate_npv_pct)
           /\ calc.valuation["Terminal Value"]
                = QuantizeRatio(calc.income_statement["EBITDA"][calc.periods[Len(calc.periods)]],
                                scenario.exit_valuation.exit_multiple_ev_ebitda, 1)

---------------------------------------------------------------------------
\* The order of the stages of a run.

\* lines 52-108 of calculate_scenario in program order: the eleven
\* computations, the delete and the six groups of creates of _save_results,
\* and the save of the log with status 'success'
Stages ==
    <<"periods", "revenue", "opex", "depreciation", "capex", "debt",
      "is", "cfs", "bs", "ratios", "valuation",
      "save", "save_is", "save_bs", "save_cfs", "save_ratio", "save_valuation",
      "save_debt", "success">>

StageIndex(at) == CHOOSE i \in DOMAIN Stages : Stages[i] = at

\* the local each computation assigns
StageLocals ==
    [periods |-> {"periods"}, revenue |-> {"revenue_schedule"},
     opex |-> {"opex_schedule"}, depreciation |-> {"depreciation_schedule"},
     capex |-> {"capex_schedule"}, debt |-> {"debt_schedule"},
     is |-> {"income_statement"}, cfs |-> {"cash_flow_statement"},
     bs |-> {"balance_sheet"}, ratios |-> {"ratios"}, valuation |-> {"valuation", "irr"}]

\* the five schedules are the ones the schedulers return for the scenario
SchedulesExist ==
    /\ calc.revenue_schedule = calculate_revenue(scenario, calc.periods)
    /\ calc.opex_schedule = calculate_opex(scenario, calc.periods)
    /\ calc.depreciation_schedule = calculate_depreciation(scenario, calc.periods)
    /\ calc.capex_schedule = calculate_capex(scenario, calc.periods)
    /\ calc.debt_schedule = calculate_debt(scenario, calc.periods)

\* what _save_results is called with
ResultsOfRun ==
    [income_statement |-> calc.income_statement, balance_sheet |-> calc.balance_sheet,
     cash_flow_statement |-> calc.cash_flow_statement, ratios |-> calc.ratios,
     valuation |-> calc.valuation, debt_schedule |-> calc.debt_schedule]

\* a step of a run in program order
StepInOrder ==
    /\ pc \in PeriodSet(Stages) /\ pc' # pc
          => \/ pc' = "except"
             \/ pc = "success" /\ pc' = "idle"
             \/ pc # "success" /\ pc' = Stages[StageIndex(pc) + 1]
    /\ \A at \in DOMAIN StageLocals :
          \A local \in StageLocals[at] :
              calc'[local] # calc[local] => pc = at \/ (pc = "idle" /\ calc' = NewEngine)
    /\ calc'.income_statement # calc.income_statement /\ pc # "idle" => SchedulesExist
    /\ calc'.cash_flow_statement # calc.cash_flow_statement /\ pc # "idle" => SchedulesExist
    /\ calc'.balance_sheet # calc.balance_sheet /\ pc # "idle" => SchedulesExist
    /\ stored' # stored => StageIndex(pc) > StageIndex("valuation")
    /\ logs' # logs /\ logs'[Len(logs')] = "success"
          => pc = "success" /\ stored = AllRows(ResultsOfRun, Len(logs))

\* C28: within a run the stages execute once each in the order period
\* generation, the five schedulers, income statement, cash flow statement,
\* balance sheet, ratios, valuation, persistence: every step moves to the
\* next stage (or to the except branch), each local is assigned only at its
\* own stage, no statement is built before the five schedules exist, rows
\* are written only after ratios and valuation, and 'success' is recorded
\* only when all rows of the run are written.
C28_StageOrder == [][StepInOrder]_vars

\* a run has gone through every stage and ended in success
C28_Witness ==
    /\ RunEnded /\ logs[Len(logs)] = "success"
    /\ calc.periods # <<>>
    /\ calc.valuation # EmptyDict /\ calc.ratios # EmptyDict
    /\ stored = AllRows(ResultsOfRun, Len(logs))
    /\ \E row \in stored : row.statement_type = "debt"

\* C29: the Closing Balance of the debt schedule is negative in no period,
\* and the Principal Repayment of a period is at most its Opening Balance
\* plus its Drawdowns (to the cent), whatever the construction start, the
\* operations start, the grace period, the tenor and the drawdown
\* percentages.
C29_ClosingNeverNegative ==
    DebtScheduleComputed
        => \A p \in PeriodSet(calc.periods) :
              /\ calc.debt_schedule["Closing Balance"][p] >= 0
              /\ calc.debt_schedule["Principal Repayment"][p]
                    <= calc.debt_schedule["Opening Balance"][p]
                       + calc.debt_schedule["Drawdowns"][p] + Cent

---------------------------------------------------------------------------
\* The model endpoint's flag.

\* a request handler that has started runs to its response: the server keeps
\* executing it and a run of the engine ends
ViewsFairness ==
    /\ WF_vars(GetObject)
    /\ WF_vars(CheckInProgress)
    /\ WF_vars(MarkInProgress)
    /\ WF_vars(CalculateScenario)
    /\ WF_vars(EngineReturns)
    /\ WF_vars(ClearInProgress)

SpecViewsFair == InitViews /\ [][NextViews]_vars /\ ViewsFairness

\* the columns of the model's row
ModelRow == <<views.in_progress, views.last_calculated_at, views.calculation_error>>

\* the r-th request, to the model endpoint, has saved the flag as True
HasSetFlag(r) ==
    /\ r \in DOMAIN views.requests
    /\ views.requests[r].endpoint = "model"
    /\ views.requests[r].at \in {"calculate", "running", "clear"}

\* the r-th request has saved the flag as False and answered
HasClearedFlag(r) ==
    /\ r \in DOMAIN views.requests
    /\ views.requests[r].at = "done"
    /\ views.requests[r].response \in {200, 400}
    /\ ~views.requests[r].is_calculation_in_progress

\* a request that sets the flag sets it back, whether its runs return or one
\* raises
C30_FlagCleared == \A r \in 1..MaxRequests : HasSetFlag(r) ~> HasClearedFlag(r)

\* a request that finds the flag True answers 409, starts no run and leaves
\* the row as it is
ConflictStep ==
    \A r \in DOMAIN views.requests :
        (/\ views.requests[r].at = "check"
         /\ views.requests[r].is_calculation_in_progress
         /\ views'.requests[r] # views.requests[r])
            => /\ views'.requests[r].response = 409
               /\ views'.requests[r].at = "done"
               /\ ModelRow' = ModelRow
               /\ RunsInFlight' = RunsInFlight

\* last_calculated_at is set and calculation_error is cleared only by the
\* save of a request all of whose runs have returned
SuccessStep ==
    (\/ views'.last_calculated_at # views.last_calculated_at
     \/ views'.calculation_error = NoError /\ views.calculation_error # NoError)
        => \E r \in DOMAIN views.requests :
              /\ views.requests[r].at = "clear"
              /\ views.requests[r].response = 200
              /\ views'.requests[r].at = "done"

C30_Conflict == [][ConflictStep]_vars

C30_OnlyOnSuccess == [][SuccessStep]_vars

\* C30: every request to the model endpoint that sets
\* is_calculation_in_progress to True eventually sets it back to False,
\* whether all runs succeed or one raises; a request that finds the flag
\* True is answered 409, starts no run and changes no state; and
\* last_calculated_at is updated and calculation_error cleared only when
\* every run of the request succeeded.
C30_FlagLifecycle == C30_FlagCleared /\ C30_Conflict /\ C30_OnlyOnSuccess

===========================================================================
